---- MODULE Spec2Model ----
\* Model of Sprung/flatten.py: the Group Balancer (merge_smallest_dirs), the
\* Archive Writer (combine_swift_files) and the run of main over a file tree.
\*
\* A name (of a directory or of a file) is a sequence of tokens, each token
\* standing for a run of characters ("Merged_", "+", ".txt", "A", ...), so that
\* joining names with "+" and prefixing "Merged_" are real concatenations and a
\* joined label can coincide with a name that was written with a "+" in it.
\* A path is a sequence of names, relative to root.
EXTENDS Integers, Sequences, FiniteSets, TLC

VARIABLES
    \* ---- merge_smallest_dirs (SpecBalancer)
    m_dir_locs,     \* the argument dir_locs: sequence of <<name, count>>, in dict order
    m_max_files,    \* the argument max_files (the target number of groups)
    m_groups,       \* the local list groups
    m_locs,         \* the local dict locs (name -> count)
    m_pc,           \* "loop" | "returned" | "IndexError" | "idle"
    \* ---- combine_swift_files, one archive (SpecWriter)
    w_files,        \* sorted(all_files): sequence of <<rel path, contents>>
    w_out,          \* the characters written to out_file so far
    line_counter,   \* the local line_counter
    index_entries,  \* the local index_entries
    w_hdr,          \* for each entry, the offset in w_out at which its header was written
    w_pc,           \* "writing" | "closed" | "idle"
    \* ---- main (SpecMain)
    fs,             \* the files under root: path -> contents
    topdirs,        \* the names of the directories directly under root
    unreadable,     \* paths whose open() fails
    args,           \* [output: path (<<>> = outside root), max_files: 0 (None) or an int]
    pc,             \* "start" | "count" | "group" | "flatten" | "index" | "done" | "TypeError" | "OSError" | "idle"
    subdirs,        \* main's subdirs (sorted names)
    dir_locs,       \* main's dir_locs: sequence of <<name, count>> in insertion order
    groups,         \* main's groups
    gi,             \* position of the for loops of main (next subdir / next group)
    index_data,     \* main's index_data: sequence of <<label, entries>> in insertion order
    merge_info,     \* main's merge_info: sequence of <<label, group>> in insertion order
    hist            \* observations of the run, used only by the properties

balancerVars == <<m_dir_locs, m_max_files, m_groups, m_locs, m_pc>>
writerVars == <<w_files, w_out, line_counter, index_entries, w_hdr, w_pc>>
mainVars == <<fs, topdirs, unreadable, args, pc, subdirs, dir_locs, groups, gi,
              index_data, merge_info, hist>>
vars == <<balancerVars, writerVars, mainVars>>

\* ---------------------------------------------------------------- bounds
MaxDirs == 3
MaxLoc == 2
MaxTarget == 2
MaxFiles == 3
MaxContent == 2
MaxCap == 3
MaxRuns == 2
MaxFaults == 1

\* ---------------------------------------------------------------- helpers
Range(s) == {s[i] : i \in 1..Len(s)}

RECURSIVE SumSeq(_)
SumSeq(s) ==
    IF s = <<>> THEN 0 ELSE Head(s) + SumSeq(Tail(s))

RECURSIVE Flatten(_)
Flatten(ss) ==
    IF ss = <<>> THEN <<>> ELSE Head(ss) \o Flatten(Tail(ss))

\* list.remove(x): drops the first element equal to x
RECURSIVE RemoveFirst(_, _)
RemoveFirst(s, x) ==
    IF s = <<>> THEN <<>>
    ELSE IF Head(s) = x THEN Tail(s)
    ELSE <<Head(s)>> \o RemoveFirst(Tail(s), x)

\* sorted(s, key=...): Python's sort is stable, so element i goes to the position
\* given by the number of elements that have a smaller key, or the same key and an
\* earlier index. keys[i] is the key of s[i].
StableSortByKey(s, keys) ==
    LET n == Len(s)
        pos(i) == 1 + Cardinality({j \in 1..n :
                         keys[j] < keys[i] \/ (keys[j] = keys[i] /\ j < i)})
    IN [k \in 1..n |-> s[CHOOSE i \in 1..n : pos(i) = k]]

\* "+".join(names)
RECURSIVE JoinPlus(_)
JoinPlus(names) ==
    IF names = <<>> THEN <<>>
    ELSE IF Len(names) = 1 THEN names[1]
    ELSE names[1] \o <<"+">> \o JoinPlus(Tail(names))

\* dict built from a sequence of <<key, value>> pairs with distinct keys
DictOf(pairs) ==
    [k \in {p[1] : p \in Range(pairs)} |->
        (CHOOSE p \in Range(pairs) : p[1] = k)[2]]

\* d[k] = v on a dict held as a function
DictSet(d, k, v) ==
    [x \in DOMAIN d \cup {k} |-> IF x = k THEN v ELSE d[x]]

\* ---------------------------------------------------------------- merge_smallest_dirs
\* sum(locs[d] for d in g)
GroupLoc(g, l) ==
    SumSeq([i \in 1..Len(g) |-> l[g[i]]])

\* line 86: sorted(groups, key=lambda g: sum(locs[d] for d in g))
SmallestFirst(gs, l) ==
    StableSortByKey(gs, [i \in 1..Len(gs) |-> GroupLoc(gs[i], l)])

\* a slip that loses the second group's members
NewGroup_DropSecond(g1, g2) == g1

\* lines 87-88
NewGroup(g1, g2) == g1 \o g2

\* lines 91-93: groups.remove(g1); groups.remove(g2); groups.append(new_group)
Regroup(gs, g1, g2) ==
    Append(RemoveFirst(RemoveFirst(gs, g1), g2), NewGroup(g1, g2))

\* lines 94-95: locs[new_key] = sum(locs[d] for d in new_group if d in locs)
Relocs(l, new_group) ==
    DictSet(l, JoinPlus(new_group),
            SumSeq([i \in 1..Len(new_group) |->
                      IF new_group[i] \in DOMAIN l THEN l[new_group[i]] ELSE 0]))

\* line 84: the loop condition
MustMerge(gs, target) == Len(gs) > target

\* one iteration of the loop body, lines 86-95 (needs two groups: smallest[1]
\* raises IndexError otherwise)
MergeIteration(gs, l) ==
    LET smallest == SmallestFirst(gs, l)
        g1 == smallest[1]
        g2 == smallest[2]
    IN [groups |-> Regroup(gs, g1, g2), locs |-> Relocs(l, NewGroup(g1, g2))]

\* lines 81-82
InitialGroups(pairs) == [i \in 1..Len(pairs) |-> <<pairs[i][1]>>]

\* the whole function, lines 81-97: [raised, groups], raised when the loop body
\* runs with fewer than two groups (IndexError)
RECURSIVE MergeLoop(_, _, _)
MergeLoop(gs, l, target) ==
    IF ~MustMerge(gs, target) THEN [raised |-> FALSE, groups |-> gs]
    ELSE IF Len(gs) < 2 THEN [raised |-> TRUE, groups |-> gs]
    ELSE LET r == MergeIteration(gs, l) IN MergeLoop(r.groups, r.locs, target)

merge_smallest_dirs(pairs, target) ==
    MergeLoop(InitialGroups(pairs), DictOf(pairs), target)

\* ---- the inputs of SpecBalancer
nA == <<"A">>
nB == <<"B">>
nC == <<"C">>
nD == <<"D">>
nAplusB == <<"A", "+", "B">>
BalancerNames == {nA, nB, nC, nAplusB}

\* sequences of n distinct names
RECURSIVE DistinctSeqs(_, _)
DistinctSeqs(S, n) ==
    IF n = 0 THEN {<<>>}
    ELSE UNION {{<<x>> \o t : t \in DistinctSeqs(S \ {x}, n - 1)} : x \in S}

CountsMaps ==
    UNION {{[i \in 1..n |-> <<ks[i], cs[i]>>] :
               ks \in DistinctSeqs(BalancerNames, n),
               cs \in [1..n -> 0..MaxLoc]} : n \in 0..MaxDirs}

\* the example of the specification: {A:10, B:20, C:5, D:1}, target 2
ExampleCounts == <<<<nA, 10>>, <<nB, 20>>, <<nC, 5>>, <<nD, 1>>>>

BalancerIdle ==
    /\ m_dir_locs = <<>> /\ m_max_files = 0 /\ m_groups = <<>>
    /\ m_locs = <<>> /\ m_pc = "idle"

WriterIdle ==
    /\ w_files = <<>> /\ w_out = <<>> /\ line_counter = 0
    /\ index_entries = <<>> /\ w_hdr = <<>> /\ w_pc = "idle"

MainIdle ==
    /\ fs = <<>> /\ topdirs = {} /\ unreadable = {} /\ args = <<>>
    /\ pc = "idle" /\ subdirs = <<>> /\ dir_locs = <<>> /\ groups = <<>>
    /\ gi = 0 /\ index_data = <<>> /\ merge_info = <<>> /\ hist = <<>>

InitBalancer ==
    /\ \/ /\ m_dir_locs \in CountsMaps
          /\ m_max_files \in -1..MaxTarget
       \/ /\ m_dir_locs = ExampleCounts
          /\ m_max_files = 2
    /\ m_groups = InitialGroups(m_dir_locs)
    /\ m_locs = DictOf(m_dir_locs)
    /\ m_pc = "loop"
    /\ WriterIdle /\ MainIdle

\* lines 84-95, one pass through the loop body
M_Iterate ==
    /\ m_pc = "loop"
    /\ MustMerge(m_groups, m_max_files)
    /\ Len(m_groups) >= 2
    /\ LET r == MergeIteration(m_groups, m_locs)
       IN /\ m_groups' = r.groups
          /\ m_locs' = r.locs
    /\ UNCHANGED <<m_dir_locs, m_max_files, m_pc, writerVars, mainVars>>

\* lines 86-87 with fewer than two groups: smallest[0] or smallest[1] raises
M_IndexError ==
    /\ m_pc = "loop"
    /\ MustMerge(m_groups, m_max_files)
    /\ Len(m_groups) < 2
    /\ m_pc' = "IndexError"
    /\ UNCHANGED <<m_dir_locs, m_max_files, m_groups, m_locs, writerVars, mainVars>>

\* line 97
M_Return ==
    /\ m_pc = "loop"
    /\ ~MustMerge(m_groups, m_max_files)
    /\ m_pc' = "returned"
    /\ UNCHANGED <<m_dir_locs, m_max_files, m_groups, m_locs, writerVars, mainVars>>

NextBalancer == M_Iterate \/ M_IndexError \/ M_Return

SpecBalancer == InitBalancer /\ [][NextBalancer]_vars

\* ---------------------------------------------------------------- properties of the balancer
InputNames == [i \in 1..Len(m_dir_locs) |-> m_dir_locs[i][1]]

\* the total of a group as the specification defines it: the sum of its member
\* directories' counts in the input map
MemberTotal(g) == GroupLoc(g, DictOf(m_dir_locs))

\* (total, position) of group i is before that of group j
Before(gs, i, j) ==
    \/ MemberTotal(gs[i]) < MemberTotal(gs[j])
    \/ MemberTotal(gs[i]) = MemberTotal(gs[j]) /\ i < j

\* gs2 is gs with its two smallest groups (ties by position) replaced by their
\* concatenation, first then second
MergedTwoSmallest(gs, gs2) ==
    \E i, j \in 1..Len(gs) :
        /\ i # j
        /\ \A k \in 1..Len(gs) : k # i => Before(gs, i, k)
        /\ \A k \in 1..Len(gs) : (k # i /\ k # j) => Before(gs, j, k)
        /\ Len(gs2) = Len(gs) - 1
        /\ Range(gs2) = (Range(gs) \ {gs[i], gs[j]}) \cup {gs[i] \o gs[j]}

\* C1: for every counts map and target >= 1 each iteration merges exactly the
\* two groups with the smallest totals (sum of the members' counts), ties by
\* first-seen position, into first-then-second; and the example
\* {A:10, B:20, C:5, D:1} with target 2 ends as the groups [D, C, A] and [B].
C1_MergesTwoSmallest ==
    /\ [][(m_max_files >= 1 /\ m_groups' # m_groups)
             => MergedTwoSmallest(m_groups, m_groups')]_vars
    /\ []((m_pc = "returned" /\ m_dir_locs = ExampleCounts /\ m_max_files = 2)
             => Range(m_groups) = {<<nD, nC, nA>>, <<nB>>})

\* the example alone: it ends as the groups [D, C, A] and [B]
ExampleResult ==
    (m_pc = "returned" /\ m_dir_locs = ExampleCounts /\ m_max_files = 2)
        => (Len(m_groups) = 2 /\ Range(m_groups) = {<<nD, nC, nA>>, <<nB>>})

\* without a "+" in any name, every iteration merges the two smallest groups
PlusFreeMergesTwoSmallest ==
    [][(m_max_files >= 1 /\ m_groups' # m_groups /\ nAplusB \notin Range(InputNames))
          => MergedTwoSmallest(m_groups, m_groups')]_vars

Min(a, b) == IF a < b THEN a ELSE b

\* C2: for target >= 1 the function returns a partition of the keys: every key
\* in exactly one group exactly once, no other name, min(n, target) groups, and
\* the singletons in input order when n <= target.
C2_ReturnsPartition ==
    m_max_files >= 1 =>
        /\ m_pc # "IndexError"
        /\ m_pc = "returned" =>
            LET flat == Flatten(m_groups)
                n == Len(m_dir_locs)
            IN /\ Len(flat) = n
               /\ Range(flat) = Range(InputNames)
               /\ Len(m_groups) = Min(n, m_max_files)
               /\ \A i \in 1..Len(m_groups) : m_groups[i] # <<>>
               /\ n <= m_max_files => m_groups = InitialGroups(m_dir_locs)

C2_Witness ==
    /\ m_pc = "returned"
    /\ m_max_files = 1
    /\ Len(m_dir_locs) = 3
    /\ Len(m_groups) = 1

\* C10: for every counts map and every integer target the function ends with a
\* result and never selects a pair from fewer than two groups.
C10_NeverIndexError == m_pc # "IndexError"

\* ---------------------------------------------------------------- combine_swift_files
\* Text is a sequence of characters: NL is the newline, "x" any other character,
\* and RULE stands for the run of 80 "=" of DIVIDER.
NL == "\n"
RULE == "=x80"

\* line 7
DIVIDER == <<NL, RULE, NL>>

\* str(rel_path): the names joined by "/"
RECURSIVE PathText(_)
PathText(path) ==
    IF path = <<>> THEN <<>>
    ELSE IF Len(path) = 1 THEN path[1]
    ELSE path[1] \o <<"/">> \o PathText(Tail(path))

\* line 58
Header(rel_path) ==
    DIVIDER \o <<"// FILE: ">> \o PathText(rel_path) \o <<NL>> \o DIVIDER \o <<NL>>

\* text.count("\n")
RECURSIVE CountNL(_)
CountNL(text) ==
    IF text = <<>> THEN 0
    ELSE (IF Head(text) = NL THEN 1 ELSE 0) + CountNL(Tail(text))

\* a slip that records the number of newlines alone
FileLineCount_NoPlusOne(contents) == CountNL(contents)

\* line 67
FileLineCount(contents) == CountNL(contents) + 1

\* the cursor arithmetic with one more line added for the trailing blank line
AdvanceCursor_ExtraBlank(counter, header_lines, file_line_count) ==
    counter + header_lines + file_line_count + 1

\* lines 62 and 69: line_counter += header_lines; line_counter += file_line_count
AdvanceCursor(counter, header_lines, file_line_count) ==
    counter + header_lines + file_line_count

\* lines 57-70, the body of the loop for one file; w = [out, line_counter, index_entries]
WriteOne(w, rel_path, contents) ==
    LET header == Header(rel_path)
        start_line == w.line_counter
        header_lines == CountNL(header)
        file_line_count == FileLineCount(contents)
    IN [out |-> w.out \o header \o contents \o <<NL>>,
        line_counter |-> AdvanceCursor(w.line_counter, header_lines, file_line_count),
        index_entries |-> Append(w.index_entries,
              <<start_line, rel_path[Len(rel_path)], file_line_count, rel_path>>)]

\* lines 52-53
WriterStart == [out |-> <<>>, line_counter |-> 1, index_entries |-> <<>>]

\* ---- the inputs of SpecWriter
RECURSIVE TextsOfLen(_)
TextsOfLen(n) ==
    IF n = 0 THEN {<<>>}
    ELSE {<<c>> \o t : c \in {"x", NL}, t \in TextsOfLen(n - 1)}

Texts == UNION {TextsOfLen(n) : n \in 0..MaxContent}

\* the i-th file of the archive, in sorted order: A/f<i>.swift
WriterPath(i) == <<nA, <<"f", ToString(i), ".swift">>>>

InitWriter ==
    /\ \E n \in 1..MaxFiles :
          \E cs \in [1..n -> Texts] :
              w_files = [i \in 1..n |-> <<WriterPath(i), cs[i]>>]
    /\ w_out = WriterStart.out
    /\ line_counter = WriterStart.line_counter
    /\ index_entries = WriterStart.index_entries
    /\ w_hdr = <<>>
    /\ w_pc = "writing"
    /\ BalancerIdle /\ MainIdle

\* lines 56-70: the next file of sorted(all_files)
W_WriteFile ==
    /\ w_pc = "writing"
    /\ Len(index_entries) < Len(w_files)
    /\ LET file == w_files[Len(index_entries) + 1]
           r == WriteOne([out |-> w_out, line_counter |-> line_counter,
                          index_entries |-> index_entries], file[1], file[2])
       IN /\ w_out' = r.out
          /\ line_counter' = r.line_counter
          /\ index_entries' = r.index_entries
          /\ w_hdr' = Append(w_hdr, Len(w_out) + 1)
    /\ UNCHANGED <<w_files, w_pc, balancerVars, mainVars>>

\* the end of the with block, lines 55 and 72-73
W_Close ==
    /\ w_pc = "writing"
    /\ Len(index_entries) = Len(w_files)
    /\ w_pc' = "closed"
    /\ UNCHANGED <<w_files, w_out, line_counter, index_entries, w_hdr,
                   balancerVars, mainVars>>

NextWriter == W_WriteFile \/ W_Close

SpecWriter == InitWriter /\ [][NextWriter]_vars

\* ---------------------------------------------------------------- the file tree
\* the tokens in the order of the strings they stand for
TokenOrder ==
    <<"+", ".md", ".py", ".swift", ".txt", "A", "B", "C", "D", "Merged_",
      "SourceIndex", "f", "g", "old", "out", "r", "sub">>

TokRank(t) == CHOOSE i \in 1..Len(TokenOrder) : TokenOrder[i] = t

\* a < b for two names compared as strings
RECURSIVE NameLess(_, _)
NameLess(a, b) ==
    IF b = <<>> THEN FALSE
    ELSE IF a = <<>> THEN TRUE
    ELSE IF Head(a) = Head(b) THEN NameLess(Tail(a), Tail(b))
    ELSE TokRank(Head(a)) < TokRank(Head(b))

\* a < b for two paths: Path.__lt__ compares the parts, part by part
RECURSIVE PathLess(_, _)
PathLess(a, b) ==
    IF b = <<>> THEN FALSE
    ELSE IF a = <<>> THEN TRUE
    ELSE IF Head(a) = Head(b) THEN PathLess(Tail(a), Tail(b))
    ELSE NameLess(Head(a), Head(b))

\* sorted(S) for a set of names, and for a set of paths
SortedNames(S) ==
    [k \in 1..Cardinality(S) |->
        CHOOSE x \in S : Cardinality({y \in S : NameLess(y, x)}) = k - 1]

SortedPaths(S) ==
    [k \in 1..Cardinality(S) |->
        CHOOSE x \in S : Cardinality({y \in S : PathLess(y, x)}) = k - 1]

\* Path.suffix of a file name
Suffix(name) ==
    IF Len(name) >= 2 /\ name[Len(name)] \in {".swift", ".txt", ".md", ".py"}
    THEN name[Len(name)] ELSE ""

\* str.startswith("Merged_")
StartsWithMerged(name) == name # <<>> /\ name[1] = "Merged_"

\* path p lies under the directory path d
IsUnder(p, d) == Len(p) > Len(d) /\ SubSeq(p, 1, Len(d)) = d

\* the filter of lines 14-15
Eligible(name) ==
    /\ Suffix(name) \in {".swift", ".txt", ".md"}
    /\ ~StartsWithMerged(name)

\* lines 10-17: the files of tree f (path -> contents) found under directory d
gather_swift_files(f, d) ==
    {p \in DOMAIN f : IsUnder(p, d) /\ Eligible(p[Len(p)])}

\* sum(1 for _ in f): the lines a text file iterates over
LineRecords(text) ==
    CountNL(text) + (IF text # <<>> /\ text[Len(text)] # NL THEN 1 ELSE 0)

\* an open() that never raises
OpenFails_Never(bad, p) == FALSE

\* lines 25 and 64: open() of path p raises when p cannot be read
OpenFails(bad, p) == p \in bad

\* lines 24-28: the lines of one file, 0 when it cannot be read
CountFile(f, bad, p) ==
    IF OpenFails(bad, p) THEN 0 ELSE LineRecords(f[p])

RECURSIVE SumOver(_, _, _)
SumOver(f, bad, S) ==
    IF S = {} THEN 0
    ELSE LET p == CHOOSE x \in S : TRUE
         IN CountFile(f, bad, p) + SumOver(f, bad, S \ {p})

\* lines 20-29
count_lines_in_dir(f, bad, d) == SumOver(f, bad, gather_swift_files(f, d))

\* lines 45-49 (and 72): the archive's name and label
Label(group) ==
    IF Len(group) = 1 THEN group[1] ELSE <<"Merged_">> \o JoinPlus(group)

\* line 51, relative to output_dir
OutFileName(group) == Label(group) \o <<".txt">>

\* lines 37-39: all_files of a group
AllFiles(f, group) ==
    UNION {gather_swift_files(f, <<group[i]>>) : i \in 1..Len(group)}

\* lines 55-70 over the sorted files. self is the path of out_file when it lies
\* under root (<<>> otherwise): it was truncated by open("w"), so reading it
\* gives what has reached the disk of the text written so far: nothing, or, when
\* flushed is TRUE, all of it. Stops at the first file whose open() fails.
\* Returns [out, line_counter, index_entries, failed] (failed: <<>> or <<path>>).
RECURSIVE WriteFiles(_, _, _, _, _, _)
WriteFiles(w, files, f, bad, self, flushed) ==
    IF files = <<>> THEN [out |-> w.out, line_counter |-> w.line_counter,
                         index_entries |-> w.index_entries, failed |-> <<>>]
    ELSE LET p == Head(files)
         IN IF OpenFails(bad, p)
            THEN [out |-> w.out \o Header(p),
                  line_counter |-> w.line_counter + CountNL(Header(p)),
                  index_entries |-> w.index_entries, failed |-> <<p>>]
            ELSE LET contents ==
                         IF p = self
                         THEN (IF flushed THEN w.out \o Header(p) ELSE <<>>)
                         ELSE f[p]
                 IN WriteFiles(WriteOne(w, p, contents), Tail(files),
                               f, bad, self, flushed)

\* index_data[label] = entries on a dict held as a sequence of <<key, value>>
DictPut(d, k, v) ==
    IF \E i \in 1..Len(d) : d[i][1] = k
    THEN [i \in 1..Len(d) |-> IF d[i][1] = k THEN <<k, v>> ELSE d[i]]
    ELSE Append(d, <<k, v>>)

DictKeys(d) == {d[i][1] : i \in 1..Len(d)}

DictGet(d, k) == (CHOOSE i \in 1..Len(d) : d[i][1] = k)

\* lines 120-122: the lines of one archive's entries
RECURSIVE EntryLines(_, _)
EntryLines(entries, i) ==
    IF i > Len(entries) THEN <<>>
    ELSE <<(IF i < Len(entries) THEN "|   |-- " ELSE "|   L-- "),
           ToString(entries[i][1]), " - ">> \o entries[i][2]
         \o <<" (", ToString(entries[i][3]), " lines)", NL>>
         \o EntryLines(entries, i + 1)

\* ", ".join(names)
RECURSIVE JoinComma(_)
JoinComma(names) ==
    IF names = <<>> THEN <<>>
    ELSE IF Len(names) = 1 THEN names[1]
    ELSE names[1] \o <<", ">> \o JoinComma(Tail(names))

\* lines 114-123: one archive of the index; labels is the sorted list of labels
RECURSIVE ArchiveLines(_, _, _)
ArchiveLines(labels, data, info) ==
    IF labels = <<>> THEN <<>>
    ELSE LET l == Head(labels)
             head == IF l \in DictKeys(info)
                     THEN <<"|-- ">> \o l \o <<".txt", "  (merged: ">> \o
                            JoinComma(info[DictGet(info, l)][2]) \o <<")", NL>>
                     ELSE <<"|-- ">> \o l \o <<".txt", NL>>
         IN head \o EntryLines(data[DictGet(data, l)][2], 1) \o <<"|", NL>>
            \o ArchiveLines(Tail(labels), data, info)

\* lines 104-112: the nine lines of the key
IndexPreamble ==
    <<".", NL, "|", NL, "|  KEY:", NL, "|    <number>", NL, "|    (<N> lines)", NL,
      "|", NL, "|  Example", NL, "|           ^start", NL, "|", NL>>

\* lines 100-125: the text of SourceIndex.txt
create_index_file(data, info) ==
    IndexPreamble \o ArchiveLines(SortedNames(DictKeys(data)), data, info)

IndexFileName == <<"SourceIndex", ".txt">>

\* ---------------------------------------------------------------- main
nBplusC == <<"B", "+", "C">>
nOut == <<"out">>

\* the files a tree may hold: path -> contents
SourcePool ==
    (<<nA, <<"f", ".swift">>>> :> <<"x">>)
    @@ (<<nA, <<"g", ".py">>>> :> <<"x", NL>>)
    @@ (<<nA, <<"Merged_", "old", ".txt">>>> :> <<"x", NL>>)
    @@ (<<nAplusB, <<"f", ".txt">>>> :> <<"x", NL, "x", NL>>)
    @@ (<<nBplusC, <<"f", ".md">>>> :> <<"x", NL>>)
    @@ (<<nC, <<"sub">>, <<"f", ".swift">>>> :> <<"x", NL, "x">>)
    @@ (<<<<"r", ".md">>>> :> <<"x", NL>>)

\* what a top-level directory holds, by kind
DirFiles(d, kind) ==
    IF kind \in {"absent", "empty"} THEN {}
    ELSE IF kind = "junk" THEN {p \in DOMAIN SourcePool : IsUnder(p, <<d>>) /\ ~Eligible(p[Len(p)])}
    ELSE {p \in DOMAIN SourcePool : IsUnder(p, <<d>>)}

TreeKinds ==
    [A : {"absent", "junk", "full"}, AB : {"absent", "full"},
     BC : {"absent", "full"}, C : {"absent", "empty", "full"}, rootfile : BOOLEAN]

TreeDirs(k) ==
    {d \in {nA, nAplusB, nBplusC, nC} :
        \/ d = nA /\ k.A # "absent"
        \/ d = nAplusB /\ k.AB # "absent"
        \/ d = nBplusC /\ k.BC # "absent"
        \/ d = nC /\ k.C # "absent"}

TreePaths(k) ==
    DirFiles(nA, k.A) \cup DirFiles(nAplusB, k.AB) \cup DirFiles(nBplusC, k.BC)
    \cup DirFiles(nC, k.C)
    \cup (IF k.rootfile THEN {p \in DOMAIN SourcePool : Len(p) = 1} ELSE {})

\* the eligible files of the tree under root
EligibleFiles(f) == {p \in DOMAIN f : Eligible(p[Len(p)])}

NewRun(run, generated, faults) ==
    [run |-> run, faults |-> faults, generated |-> generated,
     written |-> {}, discovered |-> {}, tree0 |-> {},
     count_seen |-> <<>>, count_bad |-> {},
     write_seen |-> {}, write_bad |-> {},
     labels |-> <<>>, index_emitted |-> FALSE]

InitMain ==
    /\ \E k \in TreeKinds :
          /\ fs = [p \in TreePaths(k) |-> SourcePool[p]]
          /\ topdirs = TreeDirs(k)
    /\ unreadable = {}
    /\ \E o \in {<<>>, <<nOut>>}, m \in 0..MaxCap :
          args = [output |-> o, max_files |-> m]
    /\ pc = "start"
    /\ subdirs = <<>> /\ dir_locs = <<>> /\ groups = <<>> /\ gi = 0
    /\ index_data = <<>> /\ merge_info = <<>>
    /\ hist = NewRun(1, {}, 0)
    /\ BalancerIdle /\ WriterIdle

Max(a, b) == IF a > b THEN a ELSE b

\* lines 143-149: output_dir.mkdir(parents=True, exist_ok=True), then the sorted
\* directories directly under root
Start ==
    /\ pc = "start"
    /\ topdirs' = IF args.output = <<>> THEN topdirs
                  ELSE topdirs \cup {args.output[1]}
    /\ subdirs' = SortedNames(topdirs')
    /\ dir_locs' = <<>>
    /\ gi' = 1
    /\ pc' = "count"
    /\ hist' = [hist EXCEPT !.tree0 = EligibleFiles(fs)]
    /\ UNCHANGED <<fs, unreadable, args, groups, index_data, merge_info,
                   balancerVars, writerVars>>

\* lines 150-153, one directory
CountDir ==
    /\ pc = "count"
    /\ gi <= Len(subdirs)
    /\ LET d == subdirs[gi]
           seen == gather_swift_files(fs, <<d>>)
       IN /\ dir_locs' = Append(dir_locs, <<d, count_lines_in_dir(fs, unreadable, <<d>>)>>)
          /\ hist' = [hist EXCEPT !.discovered = @ \cup seen,
                                  !.count_seen = Append(@, seen),
                                  !.count_bad = @ \cup (seen \cap unreadable)]
    /\ gi' = gi + 1
    /\ UNCHANGED <<fs, topdirs, unreadable, args, pc, subdirs, groups,
                   index_data, merge_info, balancerVars, writerVars>>

\* line 158
TargetFiles(max_files) == Max(max_files - 1, 1)

\* line 157 (None and 0 are both falsy)
CapBinds(n, max_files) == max_files # 0 /\ n > max_files

\* lines 156-164
DecideGrouping ==
    /\ pc = "count"
    /\ gi > Len(subdirs)
    /\ IF CapBinds(Len(subdirs), args.max_files)
       THEN LET r == merge_smallest_dirs(dir_locs, TargetFiles(args.max_files))
            IN /\ groups' = r.groups
               /\ pc' = IF r.raised THEN "IndexError" ELSE "flatten"
       ELSE /\ groups' = [i \in 1..Len(subdirs) |-> <<subdirs[i]>>]
            /\ pc' = "flatten"
    /\ gi' = 1
    /\ index_data' = <<>>
    /\ merge_info' = <<>>
    /\ UNCHANGED <<fs, topdirs, unreadable, args, subdirs, dir_locs, hist,
                   balancerVars, writerVars>>

\* the path of a file of output_dir when output_dir lies under root, else <<>>
InRoot(name) == IF args.output = <<>> THEN <<>> ELSE args.output \o <<name>>

\* lines 165-171, one group: combine_swift_files (lines 37-73) and what main
\* does with what it returns
FlattenGroup ==
    /\ pc = "flatten"
    /\ gi <= Len(groups)
    /\ LET group == groups[gi]
           all_files == AllFiles(fs, group)
           out_path == InRoot(OutFileName(group))
       IN IF all_files = {}
          THEN \* returns None (line 42); line 167 cannot unpack it
               /\ pc' = "TypeError"
               /\ UNCHANGED <<fs, gi, index_data, merge_info, hist>>
          ELSE \E flushed \in (IF out_path \in all_files THEN BOOLEAN ELSE {FALSE}) :
               LET r == WriteFiles(WriterStart, SortedPaths(all_files), fs,
                                   unreadable, out_path, flushed)
                   seen == [hist EXCEPT !.written = @ \cup {OutFileName(group)},
                                        !.discovered = @ \cup all_files,
                                        !.write_seen = @ \cup all_files,
                                        !.write_bad = @ \cup (all_files \cap unreadable)]
               IN /\ fs' = IF out_path = <<>> THEN fs ELSE DictSet(fs, out_path, r.out)
                  /\ IF r.failed # <<>>
                     THEN /\ pc' = "OSError"
                          /\ hist' = seen
                          /\ UNCHANGED <<gi, index_data, merge_info>>
                     ELSE /\ pc' = pc
                          /\ gi' = gi + 1
                          /\ index_data' = DictPut(index_data, Label(group), r.index_entries)
                          /\ merge_info' = IF Len(group) > 1
                                           THEN DictPut(merge_info, Label(group), group)
                                           ELSE merge_info
                          /\ hist' = [seen EXCEPT !.labels = Append(@, Label(group))]
    /\ UNCHANGED <<topdirs, unreadable, args, subdirs, dir_locs, groups,
                   balancerVars, writerVars>>

\* lines 173-178
CreateIndex ==
    /\ pc = "flatten"
    /\ gi > Len(groups)
    /\ IF index_data # <<>>
       THEN /\ fs' = IF args.output = <<>> THEN fs
                     ELSE DictSet(fs, InRoot(IndexFileName),
                                  create_index_file(index_data, merge_info))
            /\ hist' = [hist EXCEPT !.written = @ \cup {IndexFileName},
                                    !.index_emitted = TRUE]
       ELSE UNCHANGED <<fs, hist>>
    /\ pc' = "done"
    /\ UNCHANGED <<topdirs, unreadable, args, subdirs, dir_locs, groups, gi,
                   index_data, merge_info, balancerVars, writerVars>>

\* the tool is run again with the same arguments on the tree as it now is
Rerun ==
    /\ pc \in {"done", "TypeError", "OSError"}
    /\ hist.run < MaxRuns
    /\ pc' = "start"
    /\ subdirs' = <<>> /\ dir_locs' = <<>> /\ groups' = <<>> /\ gi' = 0
    /\ index_data' = <<>> /\ merge_info' = <<>>
    /\ hist' = NewRun(hist.run + 1,
                      hist.generated \cup
                          (IF args.output = <<>> THEN {}
                           ELSE {InRoot(n) : n \in hist.written}),
                      hist.faults)
    /\ UNCHANGED <<fs, topdirs, unreadable, args, balancerVars, writerVars>>

\* a source file becomes unreadable (or is removed) while the tool runs
BecomeUnreadable ==
    /\ pc \in {"count", "flatten"}
    /\ hist.faults < MaxFaults
    /\ \E p \in DOMAIN fs \ unreadable :
          /\ args.output # <<>> => ~IsUnder(p, args.output)
          /\ unreadable' = unreadable \cup {p}
    /\ hist' = [hist EXCEPT !.faults = @ + 1]
    /\ UNCHANGED <<fs, topdirs, args, pc, subdirs, dir_locs, groups, gi,
                   index_data, merge_info, balancerVars, writerVars>>

NextMain ==
    \/ Start \/ CountDir \/ DecideGrouping \/ FlattenGroup \/ CreateIndex
    \/ Rerun \/ BecomeUnreadable

SpecMain == InitMain /\ [][NextMain]_vars

\* ---------------------------------------------------------------- properties of the writer
\* the 1-based physical line of the file on which the character at offset p lies
PhysicalLine(text, p) == 1 + CountNL(SubSeq(text, 1, p - 1))

HeaderLines(i) == CountNL(Header(index_entries[i][4]))

\* C4: whatever the contents, the start_line values of an archive's entries are
\* strictly increasing, and each is the physical line of the written file on
\* which that entry's header block begins.
C4_StartLineIsPhysicalLine ==
    \A i \in 1..Len(index_entries) :
        /\ SubSeq(w_out, w_hdr[i], w_hdr[i] + Len(Header(index_entries[i][4])) - 1)
              = Header(index_entries[i][4])
        /\ index_entries[i][1] = PhysicalLine(w_out, w_hdr[i])
        /\ i > 1 => index_entries[i - 1][1] < index_entries[i][1]

\* three files written: an empty one, one ending with a newline, one with an
\* unterminated last line
C4_Witness ==
    /\ w_pc = "closed"
    /\ Len(index_entries) = 3
    /\ w_files[1][2] = <<>>
    /\ w_files[2][2] = <<"x", NL>>
    /\ w_files[3][2] = <<NL, "x">>

\* C5 as stated: a block is header_lines + content_lines + 1 lines, with
\* content_lines the recorded count (newlines + 1): consecutive start lines
\* differ by that, and the sum over the entries is the archive's line count.
C5_BlockHasExtraBlankLine ==
    /\ \A i \in 1..Len(index_entries) :
          index_entries[i][3] = CountNL(w_files[i][2]) + 1
    /\ \A i \in 1..(Len(index_entries) - 1) :
          index_entries[i + 1][1] =
              index_entries[i][1] + HeaderLines(i) + index_entries[i][3] + 1
    /\ w_pc = "closed" =>
          SumSeq([i \in 1..Len(index_entries) |->
                     HeaderLines(i) + index_entries[i][3] + 1]) = CountNL(w_out)

\* C5 amended: a block is header_lines + content_lines lines, where content_lines
\* (newlines + 1) already counts the line the trailing newline ends.
C5_BlockIsHeaderPlusContent ==
    /\ \A i \in 1..Len(index_entries) :
          index_entries[i][3] = CountNL(w_files[i][2]) + 1
    /\ \A i \in 1..(Len(index_entries) - 1) :
          index_entries[i + 1][1] =
              index_entries[i][1] + HeaderLines(i) + index_entries[i][3]
    /\ w_pc = "closed" =>
          /\ SumSeq([i \in 1..Len(index_entries) |->
                       HeaderLines(i) + index_entries[i][3]]) = CountNL(w_out)
          /\ line_counter = CountNL(w_out) + 1

C5_Witness ==
    /\ w_pc = "closed"
    /\ Len(index_entries) >= 2
    /\ \E i \in 1..Len(w_files) : CountNL(w_files[i][2]) >= 1

\* ---------------------------------------------------------------- properties of main
\* the entries of the index, all archives together
AllEntries == Flatten([i \in 1..Len(index_data) |-> index_data[i][2]])

Occurrences(path) ==
    Cardinality({i \in 1..Len(AllEntries) : AllEntries[i][4] = path})

RECURSIVE SumLines(_, _)
SumLines(f, S) ==
    IF S = {} THEN 0
    ELSE LET p == CHOOSE x \in S : TRUE
         IN LineRecords(f[p]) + SumLines(f, S \ {p})

\* C3: with a cap M >= 1 a run writes at most M files, archives and index
\* together, whatever the number of top-level directories.
C3_AtMostMaxFiles ==
    (pc = "done" /\ args.max_files >= 1)
        => Cardinality(hist.written) <= args.max_files

\* C6: a group without eligible files gives no archive and does not stop the
\* run; a tree without eligible files in its directories ends normally with
\* nothing written.
C6_EmptyGroupDoesNotStopRun ==
    /\ pc # "TypeError"
    /\ (pc = "done" /\ \A d \in topdirs : gather_swift_files(fs, <<d>>) = {})
          => (hist.written = {} /\ ~hist.index_emitted)

\* C7: on a re-run the Discoverer returns no file that an earlier run of the
\* tool wrote, also when the output directory lies inside the tree.
C7_NoPriorOutputIngested ==
    hist.discovered \cap hist.generated = {}

\* C8: after a successful run every eligible file of the tree under root is in
\* exactly one entry of the index, and no two groups share a label.
C8_EveryFileIndexedOnce ==
    pc = "done" =>
        /\ \A p \in hist.tree0 : Occurrences(p) = 1
        /\ \A i, j \in 1..Len(hist.labels) :
              hist.labels[i] = hist.labels[j] => i = j

\* C9: a file that cannot be read while counting adds 0 to its directory's
\* count and the run goes on; a file that cannot be read when its group is
\* written aborts the run, and that run emits no index.
C9_ReadFailureAsymmetry ==
    /\ pc = "count" =>
          \A i \in 1..Len(dir_locs) :
              dir_locs[i][2] = SumLines(fs, hist.count_seen[i] \ hist.count_bad)
    /\ pc = "OSError" => hist.write_bad # {}
    /\ hist.write_bad # {} => (pc = "OSError" /\ ~hist.index_emitted)

C9_Witness ==
    /\ pc = "OSError"
    /\ hist.count_bad # {}
    /\ hist.write_bad # {}
    /\ \E i \in 1..Len(dir_locs) : hist.count_seen[i] \cap hist.count_bad # {}

====
